---- MODULE Spec2Model ----
(***************************************************************************)
(* European Power Monitor (src/app.py): the incremental CSV synchronisation *)
(* of one country's load series against the energy-charts API, the          *)
(* multi-country aggregation, and the daily / rolling / year-over-year      *)
(* processing.                                                              *)
(*                                                                          *)
(* Time is counted in slots: an instant is an integer t >= 0, slot 0 being  *)
(* 2015-01-01 00:00 UTC.  A calendar day holds SlotsPerDay slots and a      *)
(* calendar year DaysPerYear days.                                          *)
(***************************************************************************)
EXTENDS Integers, Sequences, FiniteSets, TLC

VARIABLES now, pub, files, selected_code, sess, hist, lastWriter, pick, agg, proc

vars == <<now, pub, files, selected_code, sess, hist, lastWriter, pick, agg, proc>>

\* the page's parts outside the synchronisation
derived == <<pick, agg, proc>>

-----------------------------------------------------------------------------
(* Bounds of the model *)

SlotsPerDay == 2
DaysPerYear == 2
MaxDay == 4
MaxPriorLen == 2
MaxPriorTs == 3

MaxNow == (MaxDay + 1) * SlotsPerDay - 1

-----------------------------------------------------------------------------
(* The registry of countries *)

\* the keys of COUNTRIES, in the order of the dict
CountryOrder == <<"de", "fr", "ch">>

COUNTRIES == {CountryOrder[i] : i \in 1..Len(CountryOrder)}

-----------------------------------------------------------------------------
(* Calendar arithmetic on instants *)

\* pd.Timestamp("2015-01-01", tz='UTC')
EpochStart == 0

\* the absent last_stored_date (None)
None == -1

\* strftime("%Y-%m-%d") of an instant: its UTC calendar day
DayOf(t) == t \div SlotsPerDay

\* .year of an instant
YearOf(t) == DayOf(t) \div DaysPerYear

\* f"{year}-01-01" and f"{year}-12-31" as calendar days
Jan1(year) == year * DaysPerYear
Dec31(year) == year * DaysPerYear + DaysPerYear - 1

\* pd.Timestamp.now(tz='UTC').normalize()
Normalize(t) == DayOf(t) * SlotsPerDay

\* last_stored_date + timedelta(days=1)
PlusOneDay(t) == t + SlotsPerDay

Min(a, b) == IF a <= b THEN a ELSE b
Max(a, b) == IF a >= b THEN a ELSE b

-----------------------------------------------------------------------------
(* Names of sub-series are sequences of characters *)

Lower(c) ==
    CASE c = "L" -> "l" [] c = "R" -> "r" [] c = "P" -> "p" [] c = "S" -> "s"
      [] c = "C" -> "c" [] c = "T" -> "t" [] c = "F" -> "f" [] OTHER -> c

\* str.lower()
ToLower(name) == [i \in 1..Len(name) |-> Lower(name[i])]

\* pat in name
Contains(name, pat) ==
    \E i \in 1..(Len(name) - Len(pat) + 1) : SubSeq(name, i, i + Len(pat) - 1) = pat

s_residual == <<"r","e","s","i","d","u","a","l">>
s_pumped == <<"p","u","m","p","e","d">>
s_share == <<"s","h","a","r","e">>
s_load == <<"l","o","a","d">>
s_consumption == <<"c","o","n","s","u","m","p","t","i","o","n">>

\* ['load', 'last', 'consommation', 'total load', 'electricity consumption']
ExactNames ==
    { s_load,
      <<"l","a","s","t">>,
      <<"c","o","n","s","o","m","m","a","t","i","o","n">>,
      <<"t","o","t","a","l"," ","l","o","a","d">>,
      <<"e","l","e","c","t","r","i","c","i","t","y"," ">> \o s_consumption }

IsExcluded(name) ==
    Contains(name, s_residual) \/ Contains(name, s_pumped) \/ Contains(name, s_share)

IsExact(name) == name \in ExactNames

IsFuzzy(name) == Contains(name, s_load) \/ Contains(name, s_consumption)

\* the loop "for entry in source" from entry i on, load_vals being the data
\* chosen so far ([] is falsy: "if not load_vals")
RECURSIVE SelectLoad(_, _, _)
SelectLoad(source, i, load_vals) ==
    IF i > Len(source) THEN load_vals
    ELSE LET name == ToLower(source[i].name) IN
         IF IsExcluded(name) THEN SelectLoad(source, i + 1, load_vals)
         ELSE IF IsExact(name) THEN source[i].data
         ELSE IF IsFuzzy(name)
              THEN SelectLoad(source, i + 1,
                              IF load_vals = <<>> THEN source[i].data ELSE load_vals)
              ELSE SelectLoad(source, i + 1, load_vals)

-----------------------------------------------------------------------------
(* The remote source: it holds one observation per slot 0..pub *)

N_Load == <<"L","o","a","d">>
N_ResidualLoad == <<"R","e","s","i","d","u","a","l"," ","l","o","a","d">>
N_Pumped == <<"P","u","m","p","e","d"," ","s","t","o","r","a","g","e"," ">> \o s_consumption
N_TotalLoad == <<"T","o","t","a","l"," ","L","o","a","d">>
N_LoadForecast == <<"L","o","a","d"," ","f","o","r","e","c","a","s","t">>
N_Consumption == <<"C","o","n","s","u","m","p","t","i","o","n">>
N_Solar == <<"S","o","l","a","r">>

\* the load the remote source reports for a country at an instant
RemoteLoad(country_code, t) ==
    (t % 3) + (CASE country_code = "de" -> 5 [] country_code = "fr" -> 4 [] OTHER -> 1)

\* the JSON answer to public_power?country=..&start=..&end=..: the slots
\* published so far whose calendar day lies in [current_start, current_end]
Respond(country_code, current_start, current_end, published) ==
    LET lo == current_start * SlotsPerDay
        hi == Min(published, current_end * SlotsPerDay + SlotsPerDay - 1)
        n  == IF hi >= lo THEN hi - lo + 1 ELSE 0
    IN [ unix_seconds |-> [i \in 1..n |-> lo + i - 1],
         production_types |->
            << [name |-> N_ResidualLoad, data |-> [i \in 1..n |-> 1]],
               [name |-> N_Load,
                data |-> [i \in 1..n |-> RemoteLoad(country_code, lo + i - 1)]] >> ]

\* the DataFrame of one year's answer (df_temp), [] when nothing usable
YearFrame(data_json) ==
    LET timestamps == data_json.unix_seconds
        load_vals == SelectLoad(data_json.production_types, 1, <<>>)
        min_len == Min(Len(timestamps), Len(load_vals))
    IN IF timestamps # <<>> /\ load_vals # <<>>
       THEN [i \in 1..min_len |-> [Zeitstempel |-> timestamps[i], Last_GW |-> load_vals[i]]]
       ELSE <<>>

\* the year loop: current_start / current_end of each request
YearRequest(start_date, end_date, year) ==
    [ start |-> IF year = YearOf(start_date) THEN DayOf(start_date) ELSE Jan1(year),
      end   |-> IF year = YearOf(end_date) THEN DayOf(end_date) ELSE Dec31(year) ]

YearsToLoad(start_date, end_date) == YearOf(start_date)..YearOf(end_date)

\* the requests of one fetch, in the order they are issued
Requests(start_date, end_date) ==
    [k \in 1..(YearOf(end_date) - YearOf(start_date) + 1) |->
        YearRequest(start_date, end_date, YearOf(start_date) + k - 1)]

\* pd.concat(data_frames) over the years from year y on; a year in `failed`
\* raised in requests.get / r.json() and contributes nothing
RECURSIVE ConcatYears(_, _, _, _, _, _)
ConcatYears(country_code, start_date, end_date, y, published, failed) ==
    IF y > YearOf(end_date) THEN <<>>
    ELSE LET rq == YearRequest(start_date, end_date, y)
             frame == IF y \in failed THEN <<>>
                      ELSE YearFrame(Respond(country_code, rq.start, rq.end, published))
         IN frame \o ConcatYears(country_code, start_date, end_date, y + 1, published, failed)

fetch_data_from_api(country_code, start_date, end_date, published, failed) ==
    ConcatYears(country_code, start_date, end_date, YearOf(start_date), published, failed)

-----------------------------------------------------------------------------
(* Exact arithmetic: a number is a fraction <<n, d>> in lowest terms, d > 0; *)
(* NaN is the empty tuple                                                    *)

NaN == <<>>

IsNaN(x) == x = <<>>

Abs(a) == IF a < 0 THEN -a ELSE a

RECURSIVE GCD(_, _)
GCD(a, b) == IF b = 0 THEN a ELSE GCD(b, a % b)

Rat(n, d) ==
    LET g == GCD(Abs(n), Abs(d))
        sgn == IF d < 0 THEN -1 ELSE 1
    IN <<sgn * (n \div g), sgn * (d \div g)>>

RAdd(x, y) == Rat(x[1] * y[2] + y[1] * x[2], x[2] * y[2])
RSub(x, y) == Rat(x[1] * y[2] - y[1] * x[2], x[2] * y[2])
RMul(x, y) == Rat(x[1] * y[1], x[2] * y[2])
RDiv(x, y) == Rat(x[1] * y[2], x[2] * y[1])

RECURSIVE SumSeq(_)
SumSeq(q) == IF q = <<>> THEN 0 ELSE q[1] + SumSeq(Tail(q))

\* .mean() of a group of values: NaN for an empty group
MeanOf(q) == IF q = <<>> THEN NaN ELSE Rat(SumSeq(q), Len(q))

-----------------------------------------------------------------------------
(* The page's parts outside the synchronisation, before they run *)

IdlePick == [pc |-> "idle", source |-> <<>>, load_vals |-> <<>>]

IdleAgg == [pc |-> "idle", empty |-> TRUE, total_df |-> <<>>]

IdleProc == [pc |-> "idle", pads |-> FALSE, df |-> <<>>, df_daily |-> <<>>]

-----------------------------------------------------------------------------
(* The CSV file of a country and the DataFrame read from it *)

Sessions == {1, 2}

\* a file that does not exist
NoFile == [exists |-> FALSE, readable |-> FALSE, rows |-> <<>>]

\* a file pd.read_csv cannot read
Unreadable == [exists |-> TRUE, readable |-> FALSE, rows |-> <<>>]

\* pd.DataFrame()
EmptyDF == [dtype |-> "empty", rows |-> <<>>]

\* the text of an instant in the CSV: <<day, slot of the day>>
FormatTs(t) == <<t \div SlotsPerDay, t % SlotsPerDay>>

\* a text pd.to_datetime accepts
ValidText(x) == Len(x) = 2

\* pd.to_datetime of a text
ParseTs(x) == x[1] * SlotsPerDay + x[2]

\* full_df.to_csv(csv_file_path, index=False)
to_csv(rows) ==
    [ exists |-> TRUE, readable |-> TRUE,
      rows |-> [i \in 1..Len(rows) |->
                  [Zeitstempel |-> FormatTs(rows[i].Zeitstempel), Last_GW |-> rows[i].Last_GW]] ]

\* full_df['Zeitstempel'].max()
RECURSIVE MaxTs(_)
MaxTs(rows) ==
    IF Len(rows) = 1 THEN rows[1].Zeitstempel
    ELSE Max(rows[1].Zeitstempel, MaxTs(Tail(rows)))

\* step 1 of load_and_update_single_country: full_df and last_stored_date.
\* When to_datetime raises, full_df keeps the frame read_csv returned, its
\* Zeitstempel column still text (dtype object).
LoadCsv(file) ==
    IF ~file.exists
    THEN [full_df |-> EmptyDF, last_stored_date |-> None, read_error |-> FALSE]
    ELSE IF ~file.readable
    THEN [full_df |-> EmptyDF, last_stored_date |-> None, read_error |-> TRUE]
    ELSE IF \E i \in 1..Len(file.rows) : ~ValidText(file.rows[i].Zeitstempel)
    THEN [full_df |-> [dtype |-> "object", rows |-> file.rows],
          last_stored_date |-> None, read_error |-> TRUE]
    ELSE LET rows == [i \in 1..Len(file.rows) |->
                        [Zeitstempel |-> ParseTs(file.rows[i].Zeitstempel),
                         Last_GW |-> file.rows[i].Last_GW]]
         IN [full_df |-> [dtype |-> "datetime", rows |-> rows],
             last_stored_date |-> IF rows = <<>> THEN None ELSE MaxTs(rows),
             read_error |-> FALSE]

\* start_date without the day added to last_stored_date
StartDate_SameDay(last_stored_date) ==
    IF last_stored_date = None THEN EpochStart ELSE last_stored_date

\* step 2: start_date
StartDate(last_stored_date) ==
    IF last_stored_date = None THEN EpochStart ELSE PlusOneDay(last_stored_date)

\* full_df.drop_duplicates(subset=['Zeitstempel']): the first row of each instant
RECURSIVE drop_duplicates(_)
drop_duplicates(rows) ==
    IF rows = <<>> THEN <<>>
    ELSE LET init == drop_duplicates(SubSeq(rows, 1, Len(rows) - 1))
             last == rows[Len(rows)]
         IN IF \E i \in 1..Len(init) : init[i].Zeitstempel = last.Zeitstempel
            THEN init ELSE Append(init, last)

\* one row put into a chronologically sorted sequence, after its equals
RECURSIVE InsertSorted(_, _)
InsertSorted(sorted, row) ==
    IF sorted = <<>> THEN <<row>>
    ELSE IF sorted[Len(sorted)].Zeitstempel <= row.Zeitstempel THEN Append(sorted, row)
    ELSE Append(InsertSorted(SubSeq(sorted, 1, Len(sorted) - 1), row), sorted[Len(sorted)])

\* full_df.sort_values('Zeitstempel')
RECURSIVE sort_values(_)
sort_values(rows) ==
    IF rows = <<>> THEN <<>>
    ELSE InsertSorted(sort_values(SubSeq(rows, 1, Len(rows) - 1)), rows[Len(rows)])

\* concat, drop_duplicates, sort_values of the loaded frame and the new data
\* (both with parsed instants)
Merge(rows, new_data) == sort_values(drop_duplicates(rows \o new_data))

-----------------------------------------------------------------------------
(* One run of load_and_update_single_country, in its three steps *)

IdleSession ==
    [ pc |-> "idle", loaded |-> EmptyDF, last_stored_date |-> None, read_error |-> FALSE,
      today |-> 0, start_date |-> 0, fetched |-> FALSE, reqs |-> <<>>,
      new_data |-> <<>>, full_df |-> EmptyDF, saved |-> FALSE ]

\* lines 112-130: read the CSV, take the clock, compute start_date
LoadStep(file, clock) ==
    LET l == LoadCsv(file)
        today == Normalize(clock)
        start_date == StartDate(l.last_stored_date)
    IN [ IdleSession EXCEPT
           !.pc = IF start_date <= today THEN "loaded" ELSE "done",
           !.loaded = l.full_df, !.full_df = l.full_df,
           !.last_stored_date = l.last_stored_date, !.read_error = l.read_error,
           !.today = today, !.start_date = start_date ]

\* lines 132-135: the fetch, made when start_date <= today
FetchStep(r, country_code, published, failed) ==
    LET new_data == fetch_data_from_api(country_code, r.start_date, r.today, published, failed)
    IN [ r EXCEPT !.pc = IF new_data = <<>> THEN "done" ELSE "fetched",
                  !.fetched = TRUE,
                  !.reqs = Requests(r.start_date, r.today),
                  !.new_data = new_data ]

\* sort_values of a column holding both text and instants raises TypeError
MergeRaises(r) == r.full_df.dtype = "object"

\* lines 136-138: the merged frame
MergedFrame(r) == [dtype |-> "datetime", rows |-> Merge(r.full_df.rows, r.new_data)]

\* lines 136-142: merge and save when new data came
MergeStep(r) ==
    IF MergeRaises(r) THEN [r EXCEPT !.pc = "raised"]
    ELSE [r EXCEPT !.pc = "done", !.full_df = MergedFrame(r), !.saved = TRUE]

\* the whole call, run without interruption
RunSync(file, country_code, clock, published, failed) ==
    LET r1 == LoadStep(file, clock)
        r2 == IF r1.pc = "loaded" THEN FetchStep(r1, country_code, published, failed) ELSE r1
    IN IF r2.pc = "fetched" THEN MergeStep(r2) ELSE r2

\* a save that keeps what the file holds and adds the session's rows
FileAfter_KeepsDisk(file, r) ==
    IF r.saved
    THEN to_csv(Merge(IF file.exists THEN LoadCsv(file).full_df.rows ELSE <<>>, r.full_df.rows))
    ELSE file

\* the file after a step that left the session in r
FileAfter(file, r) == IF r.saved THEN to_csv(r.full_df.rows) ELSE file

-----------------------------------------------------------------------------
(* The sequential program: one session syncs the selected country *)

\* no file yet, nothing published, no call made
SyncInit ==
    /\ now = 0
    /\ pub = -1
    /\ files = [c \in COUNTRIES |-> NoFile]
    /\ selected_code \in COUNTRIES
    /\ sess = [s \in Sessions |-> IdleSession]
    /\ hist = <<>>
    /\ lastWriter = 0

Init ==
    /\ SyncInit
    /\ pick = IdlePick
    /\ agg = IdleAgg
    /\ proc = IdleProc

\* the two most recent entries of a sequence
LastTwo(h) == IF Len(h) <= 2 THEN h ELSE SubSeq(h, Len(h) - 1, Len(h))

\* the clock advances by one slot
Tick ==
    /\ now < MaxNow
    /\ now' = now + 1
    /\ UNCHANGED <<pub, files, selected_code, sess, hist, lastWriter, derived>>

\* the remote source publishes the observations up to some slot not after now
Publish ==
    /\ \E p \in (pub + 1)..now : pub' = p
    /\ UNCHANGED <<now, files, selected_code, sess, hist, lastWriter, derived>>

\* a page load of session 1: load_and_update_single_country(selected_code, CSV_FILE);
\* each request of its fetch may fail
Sync ==
    /\ LET file == files[selected_code]
           r0 == LoadStep(file, now)
       IN \E failed \in SUBSET YearsToLoad(r0.start_date, r0.today) :
            LET r == RunSync(file, selected_code, now, pub, failed) IN
            /\ sess' = [sess EXCEPT ![1] = r]
            /\ files' = [files EXCEPT ![selected_code] = FileAfter(file, r)]
    /\ UNCHANGED <<now, pub, selected_code, hist, lastWriter, derived>>

Next == Tick \/ Publish \/ Sync

Spec == Init /\ [][Next]_vars

\* the same page load with every request succeeding; hist keeps, for the two
\* most recent calls, what the remote source held and the file the call left
SyncOk ==
    /\ LET file == files[selected_code]
           r == RunSync(file, selected_code, now, pub, {})
       IN /\ sess' = [sess EXCEPT ![1] = r]
          /\ files' = [files EXCEPT ![selected_code] = FileAfter(file, r)]
          /\ hist' = LastTwo(Append(hist, [pub |-> pub, stored |-> FileAfter(file, r)]))
    /\ UNCHANGED <<now, pub, selected_code, lastWriter, derived>>

NextReliable == Tick \/ Publish \/ SyncOk

SpecReliable == Init /\ [][NextReliable]_vars

-----------------------------------------------------------------------------
(* The same program started on a file it did not write itself *)

PriorTexts == {FormatTs(t) : t \in 0..MaxPriorTs} \cup {<<>>}

PriorRows == [Zeitstempel : PriorTexts, Last_GW : {1, 2}]

RECURSIVE SeqsUpTo(_, _)
SeqsUpTo(S, n) ==
    IF n = 0 THEN {<<>>}
    ELSE LET shorter == SeqsUpTo(S, n - 1)
         IN shorter \cup {Append(q, x) : q \in shorter, x \in S}

PriorFiles ==
    {Unreadable} \cup
    {[exists |-> TRUE, readable |-> TRUE, rows |-> q] : q \in SeqsUpTo(PriorRows, MaxPriorLen)}

InitAnyFile ==
    /\ now = MaxPriorTs
    /\ pub = -1
    /\ selected_code \in COUNTRIES
    /\ \E f \in PriorFiles :
         files = [c \in COUNTRIES |-> IF c = selected_code THEN f ELSE NoFile]
    /\ sess = [s \in Sessions |-> IdleSession]
    /\ hist = <<>>
    /\ lastWriter = 0
    /\ pick = IdlePick
    /\ agg = IdleAgg
    /\ proc = IdleProc

SpecAnyFile == InitAnyFile /\ [][Next]_vars

-----------------------------------------------------------------------------
(* Two sessions run the call on the same country, step by step *)

\* the two sessions being alike, session 1 names the one that loads first
Load(s) ==
    /\ sess[s].pc = "idle"
    /\ s = 1 \/ sess[1].pc # "idle"
    /\ sess' = [sess EXCEPT ![s] = LoadStep(files[selected_code], now)]
    /\ UNCHANGED <<now, pub, files, selected_code, hist, lastWriter, derived>>

Fetch(s) ==
    /\ sess[s].pc = "loaded"
    /\ \E failed \in SUBSET YearsToLoad(sess[s].start_date, sess[s].today) :
         sess' = [sess EXCEPT ![s] = FetchStep(sess[s], selected_code, pub, failed)]
    /\ UNCHANGED <<now, pub, files, selected_code, hist, lastWriter, derived>>

Save(s) ==
    /\ sess[s].pc = "fetched"
    /\ LET r == MergeStep(sess[s]) IN
         /\ sess' = [sess EXCEPT ![s] = r]
         /\ files' = [files EXCEPT ![selected_code] = FileAfter(files[selected_code], r)]
         /\ lastWriter' = IF r.saved THEN s ELSE lastWriter
    /\ UNCHANGED <<now, pub, selected_code, hist, derived>>

NextConc == Tick \/ Publish \/ \E s \in Sessions : Load(s) \/ Fetch(s) \/ Save(s)

\* the two sessions open the page of one country on the eve of the last day
InitConc ==
    /\ now = Normalize(MaxNow) - SlotsPerDay
    /\ pub = -1
    /\ files = [c \in COUNTRIES |-> NoFile]
    /\ selected_code = "de"
    /\ sess = [s \in Sessions |-> IdleSession]
    /\ hist = <<>>
    /\ lastWriter = 0
    /\ pick = IdlePick
    /\ agg = IdleAgg
    /\ proc = IdleProc

SpecConc == InitConc /\ [][NextConc]_vars

-----------------------------------------------------------------------------
(* Properties of the synchronisation *)

\* the instants a readable file stores
StoredTs(file) == {ParseTs(file.rows[i].Zeitstempel) : i \in 1..Len(file.rows)}

Latest(S) == CHOOSE t \in S : \A u \in S : u <= t

StrictlyIncreasing(rows) ==
    \A i \in 1..(Len(rows) - 1) : rows[i].Zeitstempel < rows[i + 1].Zeitstempel

\* C1: with every fetch succeeding, every observation the remote source holds
\* between the epoch start and the latest stored instant is in the stored
\* series of the synced country
C1_NoRecordLost ==
    LET file == files[selected_code] IN
    (file.exists /\ file.rows # <<>>) =>
        \A t \in 0..pub :
            (EpochStart <= t /\ t <= Latest(StoredTs(file))) => t \in StoredTs(file)

\* C3: when the remote source held the same data at two successive calls,
\* the second call left the file as the first call left it
C3_Idempotent ==
    (Len(hist) = 2 /\ hist[1].pub = hist[2].pub) => hist[2].stored = hist[1].stored

\* the series a finished call returned is a series of instants in strictly
\* increasing order
ReturnedIncreasing(r) == r.full_df.dtype # "object" /\ StrictlyIncreasing(r.full_df.rows)

\* C2: after a sync that could read its file, whatever the file held before,
\* the returned series and the stored series have strictly increasing instants
C2_StrictlyIncreasing ==
    (sess[1].pc = "done" /\ ~sess[1].read_error) =>
        /\ ReturnedIncreasing(sess[1])
        /\ files[selected_code].exists =>
              StrictlyIncreasing(LoadCsv(files[selected_code]).full_df.rows)

\* the requests cover the days first..last, one request per calendar year,
\* each clipped to its year
SplitByYear(reqs, first, last) ==
    /\ Len(reqs) = YearOf(last * SlotsPerDay) - YearOf(first * SlotsPerDay) + 1
    /\ reqs[1].start = first
    /\ reqs[Len(reqs)].end = last
    /\ \A k \in 1..Len(reqs) :
         LET year == YearOf(first * SlotsPerDay) + k - 1 IN
         /\ Jan1(year) <= reqs[k].start
         /\ reqs[k].start <= reqs[k].end
         /\ reqs[k].end <= Dec31(year)
    /\ \A k \in 1..(Len(reqs) - 1) : reqs[k + 1].start = reqs[k].end + 1

\* C4: a call that found a non-empty local series ending on day D and made a
\* fetch on day T requested exactly the days D+1..T, one request per calendar
\* year, and returned as many observations as the local series held plus the
\* fetch returned
C4_GapFill ==
    LET r == sess[1] IN
    (r.pc = "done" /\ r.fetched /\ r.last_stored_date # None) =>
        /\ SplitByYear(r.reqs, DayOf(r.last_stored_date) + 1, DayOf(r.today))
        /\ Len(r.full_df.rows) = Len(r.loaded.rows) + Len(r.new_data)

\* a gap that spans three calendar years was filled with new observations
C4_Witness ==
    LET r == sess[1] IN
    /\ r.pc = "done" /\ r.fetched /\ r.last_stored_date # None
    /\ Len(r.reqs) >= 3 /\ r.new_data # <<>> /\ r.saved
    /\ DayOf(r.last_stored_date) + 1 > Jan1(YearOf(r.start_date))

\* C5: a call whose file exists but cannot be read or parsed starts from the
\* epoch, fetches up to today, returns the fetched observations alone and
\* does not raise
C5_CorruptNotFatal ==
    LET r == sess[1] IN
    (r.pc \in {"done", "raised"} /\ r.read_error) =>
        /\ r.pc = "done"
        /\ r.start_date = EpochStart
        /\ r.fetched
        /\ SplitByYear(r.reqs, DayOf(EpochStart), DayOf(r.today))
        /\ r.full_df.rows = r.new_data

\* C10: the file holds exactly the merged series of the session that saved last
C10_LastWriterWins ==
    lastWriter # 0 =>
        files[selected_code] = to_csv(sess[lastWriter].full_df.rows)

\* both sessions saved, and an observation the other session saved is no
\* longer in the file
C10_Shrinks ==
    \E s \in Sessions : \E o \in Sessions \ {s} :
        /\ lastWriter = s /\ sess[s].saved /\ sess[o].saved
        /\ \E i \in 1..Len(sess[o].full_df.rows) :
             sess[o].full_df.rows[i].Zeitstempel \notin StoredTs(files[selected_code])

-----------------------------------------------------------------------------
(* The choice of the load sub-series, on its own *)

MaxEntries == 3

NameChoices == {N_Load, N_ResidualLoad, N_Pumped, N_TotalLoad, N_LoadForecast,
                N_Consumption, N_Solar}

\* the lists of at most n entries: entry i carries the data [i] or no data
RECURSIVE Sources(_)
Sources(n) ==
    IF n = 0 THEN {<<>>}
    ELSE LET shorter == Sources(n - 1)
         IN shorter \cup
            { Append(q, [name |-> nm, data |-> d]) :
                q \in {x \in shorter : Len(x) = n - 1},
                nm \in NameChoices, d \in {<<>>, <<n>>} }

InitSelect ==
    /\ SyncInit
    /\ selected_code = "de"
    /\ \E q \in Sources(MaxEntries) : pick = [IdlePick EXCEPT !.source = q]
    /\ agg = IdleAgg
    /\ proc = IdleProc

\* lines 75-88 on one answer
Select ==
    /\ pick.pc = "idle"
    /\ pick' = [pick EXCEPT !.pc = "done", !.load_vals = SelectLoad(pick.source, 1, <<>>)]
    /\ UNCHANGED <<now, pub, files, selected_code, sess, hist, lastWriter, agg, proc>>

SpecSelect == InitSelect /\ [][Select]_vars

\* the positions of the candidates that are not excluded and match exactly,
\* and of those that match by 'load' / 'consumption'
ExactAt(source) ==
    {i \in 1..Len(source) : ~IsExcluded(ToLower(source[i].name)) /\ IsExact(ToLower(source[i].name))}

FuzzyAt(source) ==
    {i \in 1..Len(source) : ~IsExcluded(ToLower(source[i].name)) /\ IsFuzzy(ToLower(source[i].name))}

First(S) == CHOOSE i \in S : \A j \in S : i <= j

\* C7: the data selected is that of the first non-excluded exact match if
\* there is one, else that of the first non-excluded candidate containing
\* 'load' or 'consumption', which no later candidate overwrites
C7_Selection ==
    pick.pc = "done" =>
        pick.load_vals =
            IF ExactAt(pick.source) # {} THEN pick.source[First(ExactAt(pick.source))].data
            ELSE IF FuzzyAt(pick.source) # {} THEN pick.source[First(FuzzyAt(pick.source))].data
            ELSE <<>>

-----------------------------------------------------------------------------
(* load_eu_aggregated_data *)

HoursPerSlot == 1
MaxAggLen == 2
MaxAggTs == 2

\* eu_codes = [c for c in COUNTRIES.keys() if c != 'ch']
NotCH(c) == c # "ch"
eu_codes == SelectSeq(CountryOrder, NotCH)

\* the hour of an instant
HourOf(t) == t * HoursPerSlot

\* the Last_GW of the rows of the hour h, in file order
RECURSIVE ValuesAt(_, _)
ValuesAt(rows, h) ==
    IF rows = <<>> THEN <<>>
    ELSE (IF HourOf(rows[1].Zeitstempel) = h THEN <<rows[1].Last_GW>> ELSE <<>>)
         \o ValuesAt(Tail(rows), h)

RECURSIVE MinTs(_)
MinTs(rows) ==
    IF Len(rows) = 1 THEN rows[1].Zeitstempel
    ELSE Min(rows[1].Zeitstempel, MinTs(Tail(rows)))

\* temp_df.resample('1h').mean(): every hour from the first to the last row,
\* NaN in the hours without a row
Resample1h(rows) ==
    [h \in HourOf(MinTs(rows))..HourOf(MaxTs(rows)) |-> MeanOf(ValuesAt(rows, h))]

\* df + df: the union of the two indexes; NaN wherever either side is
\* missing or NaN
FrameAdd(a, b) ==
    [h \in (DOMAIN a) \cup (DOMAIN b) |->
        IF h \in DOMAIN a /\ h \in DOMAIN b /\ ~IsNaN(a[h]) /\ ~IsNaN(b[h])
        THEN RAdd(a[h], b[h]) ELSE NaN]

\* sum(df_list): 0 + df_list[0] + df_list[1] + ...
RECURSIVE SumFrames(_)
SumFrames(df_list) ==
    IF Len(df_list) = 1 THEN df_list[1]
    ELSE FrameAdd(SumFrames(SubSeq(df_list, 1, Len(df_list) - 1)), df_list[Len(df_list)])

\* lines 159-171: whether a country's file adds a frame to df_list
AddsFrame(file) == LET l == LoadCsv(file) IN file.exists /\ ~l.read_error

\* lines 155-171: df_list over the codes from position i on
RECURSIVE FrameList(_, _)
FrameList(fs, i) ==
    IF i > Len(eu_codes) THEN <<>>
    ELSE (IF AddsFrame(fs[eu_codes[i]])
          THEN <<Resample1h(LoadCsv(fs[eu_codes[i]]).full_df.rows)>> ELSE <<>>)
         \o FrameList(fs, i + 1)

load_eu_aggregated_data(fs) ==
    LET df_list == FrameList(fs, 1)
    IN IF df_list = <<>> THEN [IdleAgg EXCEPT !.pc = "done"]
       ELSE [pc |-> "done", empty |-> FALSE, total_df |-> SumFrames(df_list)]

AggRows == [Zeitstempel : {FormatTs(t) : t \in 0..MaxAggTs}, Last_GW : {2, 5}]

AggFiles ==
    {NoFile, [exists |-> TRUE, readable |-> TRUE, rows |-> <<[Zeitstempel |-> <<>>, Last_GW |-> 2]>>]}
    \cup {[exists |-> TRUE, readable |-> TRUE, rows |-> q] :
            q \in SeqsUpTo(AggRows, MaxAggLen) \ {<<>>}}

InitAgg ==
    /\ now = MaxNow
    /\ pub = -1
    /\ selected_code = "de"
    /\ \E f \in AggFiles, g \in AggFiles, c \in {NoFile, to_csv(<<[Zeitstempel |-> 0, Last_GW |-> 1]>>)} :
         files = [x \in COUNTRIES |-> IF x = "de" THEN f ELSE IF x = "fr" THEN g ELSE c]
    /\ sess = [s \in Sessions |-> IdleSession]
    /\ hist = <<>>
    /\ lastWriter = 0
    /\ pick = IdlePick
    /\ agg = IdleAgg
    /\ proc = IdleProc

Aggregate ==
    /\ agg.pc = "idle"
    /\ agg' = load_eu_aggregated_data(files)
    /\ UNCHANGED <<now, pub, files, selected_code, sess, hist, lastWriter, pick, proc>>

SpecAgg == InitAgg /\ [][Aggregate]_vars

\* the included countries whose file gives data in the hour h
HaveData(fs, h) ==
    {c \in COUNTRIES \ {"ch"} :
        AddsFrame(fs[c]) /\ ValuesAt(LoadCsv(fs[c]).full_df.rows, h) # <<>>}

RECURSIVE SumOver(_, _, _)
SumOver(fs, S, h) ==
    IF S = {} THEN <<0, 1>>
    ELSE LET c == CHOOSE x \in S : TRUE
         IN RAdd(MeanOf(ValuesAt(LoadCsv(fs[c]).full_df.rows, h)), SumOver(fs, S \ {c}, h))

Missing(a, h) == a.empty \/ h \notin DOMAIN a.total_df \/ IsNaN(a.total_df[h])

\* C6: at every hour the aggregate is the sum of the hourly means of exactly
\* the included countries that have data in that hour, and is missing only
\* when none of them has
C6_AbsenceVsZero ==
    agg.pc = "done" =>
        \A h \in 0..HourOf(MaxAggTs) :
            IF HaveData(files, h) = {} THEN Missing(agg, h)
            ELSE ~Missing(agg, h) /\ agg.total_df[h] = SumOver(files, HaveData(files, h), h)

-----------------------------------------------------------------------------
(* Section 5 of the page: daily means, 7-day rolling mean, change on the year *)

MaxShortDays == 20
MaxMissing == 2

\* rolling(window=7)
Window == 7

\* pct_change(364)
YoYPeriods == 364

\* the offset of Europe/Berlin from UTC, in hours
UtcOffset == 1

\* .dt.tz_convert('Europe/Berlin') and the calendar day resample('D') puts
\* the instant in
LocalDayOf(t) == (HourOf(t) + UtcOffset) \div (SlotsPerDay * HoursPerSlot)

\* the values of each day that has a row among the rows i..j, in file order
\* (the range is halved so that the evaluation stays shallow)
RECURSIVE GroupByDay(_, _, _)
GroupByDay(rows, i, j) ==
    IF i = j THEN [d \in {LocalDayOf(rows[i].Zeitstempel)} |-> <<rows[i].Last_GW>>]
    ELSE LET m == (i + j) \div 2
             a == GroupByDay(rows, i, m)
             b == GroupByDay(rows, m + 1, j)
         IN [d \in (DOMAIN a) \cup (DOMAIN b) |->
                (IF d \in DOMAIN a THEN a[d] ELSE <<>>) \o (IF d \in DOMAIN b THEN b[d] ELSE <<>>)]

RECURSIVE MinDay(_, _, _)
MinDay(rows, i, j) ==
    IF i = j THEN LocalDayOf(rows[i].Zeitstempel)
    ELSE LET m == (i + j) \div 2 IN Min(MinDay(rows, i, m), MinDay(rows, m + 1, j))

RECURSIVE MaxDayOf(_, _, _)
MaxDayOf(rows, i, j) ==
    IF i = j THEN LocalDayOf(rows[i].Zeitstempel)
    ELSE LET m == (i + j) \div 2 IN Max(MaxDayOf(rows, i, m), MaxDayOf(rows, m + 1, j))

\* resample('D')['Last_GW'].mean(): every calendar day from the first to the
\* last, NaN on the days without an observation
DailyMean(rows) ==
    LET lo == MinDay(rows, 1, Len(rows))
        hi == MaxDayOf(rows, 1, Len(rows))
        groups == GroupByDay(rows, 1, Len(rows))
    IN [d \in lo..hi |-> IF d \in DOMAIN groups THEN MeanOf(groups[d]) ELSE NaN]

RECURSIVE SumRat(_, _, _)
SumRat(f, a, b) == IF a > b THEN <<0, 1>> ELSE RAdd(f[a], SumRat(f, a + 1, b))

\* a rolling mean that bridges gaps: the mean of the values the window holds
\* (min_periods=1)
RollingMean_Bridging(tag, d) ==
    LET have == {k \in 0..(Window - 1) : (d - k) \in DOMAIN tag /\ ~IsNaN(tag[d - k])}
    IN IF have = {} THEN NaN
       ELSE RDiv(SumRat([k \in 0..(Window - 1) |->
                          IF k \in have THEN tag[d - k] ELSE <<0, 1>>], 0, Window - 1),
                 <<Cardinality(have), 1>>)

\* rolling(window=7).mean() at day d: NaN unless the window lies in the
\* series and holds 7 values (min_periods is the window)
RollingMean(tag, d) ==
    IF \A k \in 0..(Window - 1) : (d - k) \in DOMAIN tag /\ ~IsNaN(tag[d - k])
    THEN RDiv(SumRat(tag, d - Window + 1, d), <<Window, 1>>)
    ELSE NaN

\* ffill(): the last value that is not NaN, at or before day d
RECURSIVE Pad(_, _)
Pad(x, d) ==
    IF d \notin DOMAIN x THEN NaN
    ELSE IF ~IsNaN(x[d]) THEN x[d]
    ELSE Pad(x, d - 1)

\* pct_change(364) * 100 at day d.  The pandas releases that fill by default
\* (fill_method='pad') divide the forward-filled series; the others the series
\* itself.
PctChange(x, d, pads) ==
    LET cur == IF pads THEN Pad(x, d) ELSE x[d]
        old == IF (d - YoYPeriods) \notin DOMAIN x THEN NaN
               ELSE IF pads THEN Pad(x, d - YoYPeriods) ELSE x[d - YoYPeriods]
    IN IF IsNaN(cur) \/ IsNaN(old) THEN NaN
       ELSE RMul(RSub(RDiv(cur, old), <<1, 1>>), <<100, 1>>)

\* lines 218-230: df_daily
Daily(rows, pads) ==
    LET tag == DailyMean(rows)
        mean7 == [d \in DOMAIN tag |-> RollingMean(tag, d)]
    IN [d \in DOMAIN tag |->
          [ Last_GW_Tag |-> tag[d],
            Last_GW_7d_Mean |-> mean7[d],
            Veraenderung_Vorjahr_Prozent |-> PctChange(mean7, d, pads) ]]

\* the observations of one UTC day of the input: one at midnight, and on every
\* third day a second one in the last slot
DayRows(d) ==
    <<[Zeitstempel |-> d * SlotsPerDay, Last_GW |-> 40 + (d % 5)]>>
    \o (IF d % 3 = 1
        THEN <<[Zeitstempel |-> d * SlotsPerDay + SlotsPerDay - 1, Last_GW |-> 41 + (d % 5)]>>
        ELSE <<>>)

\* a series over the days a..b with no observation on the days of M
RECURSIVE BuildDf(_, _, _)
BuildDf(a, b, M) ==
    IF a > b THEN <<>>
    ELSE IF a = b THEN (IF a \in M THEN <<>> ELSE DayRows(a))
    ELSE LET m == (a + b) \div 2 IN BuildDf(a, m, M) \o BuildDf(m + 1, b, M)

AtMost(S, k) == {M \in SUBSET S : Cardinality(M) <= k}

\* short series with up to MaxMissing days missing, and series longer than a
\* year with up to one day missing near the start and one a year later
ShortInputs ==
    {BuildDf(1, MaxShortDays, M) : M \in AtMost(2..(MaxShortDays - 1), MaxMissing)}

LongInputs ==
    {BuildDf(1, YoYPeriods + MaxShortDays, M1 \cup {d + YoYPeriods : d \in M2}) :
        M1 \in AtMost(2..(MaxShortDays - 1), 1), M2 \in AtMost(2..(MaxShortDays - 1), 1)}

InitDaily ==
    /\ SyncInit
    /\ selected_code = "de"
    /\ pick = IdlePick
    /\ agg = IdleAgg
    /\ \E q \in ShortInputs \cup LongInputs, b \in BOOLEAN :
         proc = [IdleProc EXCEPT !.df = q, !.pads = b]

Process ==
    /\ proc.pc = "idle"
    /\ proc' = [proc EXCEPT !.pc = "done", !.df_daily = Daily(proc.df, proc.pads)]
    /\ UNCHANGED <<now, pub, files, selected_code, sess, hist, lastWriter, pick, agg>>

SpecDaily == InitDaily /\ [][Process]_vars

\* the calendar days on which the raw series has an observation
ObservedDays(rows) == {LocalDayOf(rows[i].Zeitstempel) : i \in 1..Len(rows)}

\* C8: the rolling mean of day d is defined exactly when each of the seven
\* days d-6..d has an observation; a series missing only day 10 has no
\* rolling mean on days 1-6 and 10-16 and has one from day 17 on
C8_RollingGap ==
    proc.pc = "done" =>
        LET days == DOMAIN proc.df_daily
            obs == ObservedDays(proc.df)
        IN /\ \A d \in days :
                ~IsNaN(proc.df_daily[d].Last_GW_7d_Mean) <=> ((d - 6)..d \subseteq obs)
           /\ (obs = (1..MaxShortDays) \ {10}) =>
                {d \in days : IsNaN(proc.df_daily[d].Last_GW_7d_Mean)} = (1..6) \cup (10..16)

\* a processed series that misses day 10 alone
C8_Witness ==
    /\ proc.pc = "done"
    /\ ObservedDays(proc.df) = (1..MaxShortDays) \ {10}
    /\ IsNaN(proc.df_daily[16].Last_GW_7d_Mean)
    /\ ~IsNaN(proc.df_daily[17].Last_GW_7d_Mean)

\* C9: the change on the year of day t is (mean7[t] / mean7[t-364] - 1) * 100
\* when both rolling means are defined, and missing otherwise
C9_YoY ==
    proc.pc = "done" =>
        LET f == proc.df_daily IN
        \A t \in DOMAIN f :
            IF (t - 364) \in DOMAIN f /\ ~IsNaN(f[t].Last_GW_7d_Mean)
                                     /\ ~IsNaN(f[t - 364].Last_GW_7d_Mean)
            THEN f[t].Veraenderung_Vorjahr_Prozent =
                    RMul(RSub(RDiv(f[t].Last_GW_7d_Mean, f[t - 364].Last_GW_7d_Mean),
                              <<1, 1>>), <<100, 1>>)
            ELSE IsNaN(f[t].Veraenderung_Vorjahr_Prozent)

====
